---- MODULE Spec2Model ----
(***************************************************************************)
(* A model of src/core/concurrent.rs: the blocking queues (QueuePtr and    *)
(* BoundedQueuePtr behind Queue, BlockingPriorityQueue, BoundedQueue and   *)
(* BoundedPriorityQueue) and the concurrent maps (LockedHashMap behind     *)
(* ConcurrentHashMap and ShardMap).                                        *)
(*                                                                         *)
(* Every statement of a push, pop, swap or find that touches shared state  *)
(* is one step of the calling thread; threads interleave freely.           *)
(* Mutex, Cond, Deque, PriorityQueue, HashMap and the keyed hash live in   *)
(* other modules of the crate; they are modelled from their contract.      *)
(***************************************************************************)
EXTENDS Integers, Sequences, FiniteSets, Bags, TLC

\* ---------------------------------------------------------------- bounds
MaxPush == 3    \* push calls made in one run, over all threads
MaxVal == 2     \* priorities range over 1..MaxVal
MaxCap == 2     \* capacities range over 0..MaxCap
MaxKey == 2     \* map keys range over 1..MaxKey
MaxMapVal == 2  \* map values range over 1..MaxMapVal
MaxShards == 2  \* shard counts range over 0..MaxShards
MaxSeed == 1    \* each hash seed ranges over 0..MaxSeed

\* Three threads: the fewest with two producers competing for one slot
\* that a third thread frees, and with two consumers behind one producer.
Threads == {1, 2, 3}
\* A box is the shared state object behind an Arc; box 1 is the one `new`
\* allocates.  More than one box exists only if a clone were a deep copy.
Boxes == Threads
\* The priority of a pushed item.  Where priorities play no part every
\* item is pushed with the same one, so that a priority queue may hand
\* out its items in any order.
Values == 1..MaxVal
PlainValues == {1}

VARIABLES
    qtype,      \* which public queue type was constructed
    maximum,    \* BoundedQueueBox.maximum (0 and unused for unbounded types)
    ptr,        \* ptr[t]: the box thread t's handle points to, 0 = no handle
    queue,      \* queue[b]: QueueBox.queue / BoundedQueueBox.deque
    mutex,      \* mutex[b]: the thread holding the box's mutex, 0 = free
    not_empty,  \* not_empty[b]: threads blocked in not_empty.wait
    not_full,   \* not_full[b]: threads blocked in not_full.wait
    pc,         \* pc[t]: the statement thread t executes next
    item,       \* item[t]: the argument of t's push in progress
    ret,        \* ret[t]: the value t's last pop removed / returned
    seq,        \* seq[t]: number of push calls t has made
    pushed,     \* the bag of items inserted so far, through any handle
    popped,     \* the bag of items removed so far, through any handle
    mtype,      \* which map type was constructed
    k0, k1,     \* ShardMapBox.k0, ShardMapBox.k1 (0 and unused otherwise)
    maps,       \* maps[i]: LockedHashMap.map of shard i (a single map: shard 0)
    mmutex,     \* mmutex[i]: the thread holding LockedHashMap.mutex of shard i
    mpc,        \* mpc[t]: the statement of a map call thread t executes next
    mop,        \* mop[t]: the map call thread t is in
    mshard,     \* mshard[t]: the local `shard` of t's call
    mret,       \* mret[t]: the result of t's call, computed and not yet returned
    kept,       \* kept[t]: what t's latest find returned, which t still holds
    ref,        \* a plain key-to-value mapping the same calls are applied to
    refret,     \* refret[t]: what the plain mapping answered to t's last call
    single,     \* one LockedHashMap.map the same calls are applied to
    sret        \* sret[t]: what the single map returned for t's call

qvars == <<qtype, maximum, ptr, queue, mutex, not_empty, not_full,
           pc, item, ret, seq, pushed, popped>>
mvars == <<mtype, k0, k1, maps, mmutex, mpc, mop, mshard, mret, kept,
           ref, refret, single, sret>>
vars == <<qtype, maximum, ptr, queue, mutex, not_empty, not_full,
          pc, item, ret, seq, pushed, popped,
          mtype, k0, k1, maps, mmutex, mpc, mop, mshard, mret, kept,
          ref, refret, single, sret>>

\* ------------------------------------------------------------ public types
UnboundedTypes == {"Queue", "BlockingPriorityQueue"}
BoundedTypes == {"BoundedQueue", "BoundedPriorityQueue"}
QueueTypes == UnboundedTypes \cup BoundedTypes

\* The backing structure each public type instantiates its engine with.
Backing(ty) ==
    IF ty \in {"BlockingPriorityQueue", "BoundedPriorityQueue"}
    THEN "PriorityQueue" ELSE "Deque"

NoItem == [p |-> 0, n |-> 0, v |-> 0]
Items == [p : Threads, n : 1..(MaxPush + 1), v : Values]

\* ------------------------------------------------- backing structures
\* The result of a removal: Option<T> together with the structure left.
None(q) == [some |-> FALSE, item |-> NoItem, rest |-> q]
RemoveAt(q, i) ==
    [some |-> TRUE, item |-> q[i],
     rest |-> SubSeq(q, 1, i - 1) \o SubSeq(q, i + 1, Len(q))]

is_empty(q) == Len(q) = 0

Deque_push_back(q, x) == Append(q, x)
Deque_pop_front(q) == IF is_empty(q) THEN {None(q)} ELSE {RemoveAt(q, 1)}

\* The heap is kept as the list of its items; which of several equal
\* maximal items a pop yields is unspecified, so every one is an outcome.
PriorityQueue_push(q, x) == Append(q, x)
MaxIndices(q) == {i \in DOMAIN q : \A j \in DOMAIN q : q[j].v <= q[i].v}
PriorityQueue_pop(q) ==
    IF is_empty(q) THEN {None(q)} ELSE {RemoveAt(q, i) : i \in MaxIndices(q)}

\* trait GenericQueue, as implemented for Deque and for PriorityQueue.
generic_push(ty, q, x) ==
    IF Backing(ty) = "PriorityQueue" THEN PriorityQueue_push(q, x)
    ELSE Deque_push_back(q, x)

generic_pop_front(ty, q) == Deque_pop_front(q)
generic_pop_back(ty, q) ==
    IF is_empty(q) THEN {None(q)} ELSE {RemoveAt(q, Len(q))}
generic_pop(ty, q) ==
    IF Backing(ty) = "PriorityQueue" THEN PriorityQueue_pop(q)
    ELSE Deque_pop_front(q)

\* ------------------------------------------------------- Mutex and Cond
Mutex_free(b) == mutex[b] = 0
Mutex_lock(b, t) == [mutex EXCEPT ![b] = t]
Mutex_unlock(b) == [mutex EXCEPT ![b] = 0]

\* Cond::wait puts the caller into the wait set and releases the mutex in
\* one step; the caller leaves the set when signalled or spuriously and
\* must then take the mutex again before wait returns.
Cond_enter(cond, b, t) == [cond EXCEPT ![b] = @ \cup {t}]
Cond_leave(cond, b, t) == [cond EXCEPT ![b] = @ \ {t}]
\* Cond::signal wakes one waiter if there is one.
Cond_signal(cond, b) ==
    IF cond[b] = {} THEN {cond}
    ELSE {Cond_leave(cond, b, u) : u \in cond[b]}

\* ------------------------------------------------------------------ maps
\* The threads that call into the map: two, the fewest that can be inside
\* two critical sections at once or contend for one.
MapThreads == {1, 2}
Keys == 1..MaxKey
MapValues == 1..MaxMapVal
Seeds == 0..MaxSeed
MapTypes == {"ConcurrentHashMap", "ShardMap"}

\* Option<V>.  `at` says which storage the value is read from: <<>> for a
\* value the Option owns, <<i, k>> for the slot of key k in maps[i].
None_ == [some |-> FALSE, v |-> 0, at |-> <<>>]
Some(x) == [some |-> TRUE, v |-> x, at |-> <<>>]
Shared(i, k) == [some |-> TRUE, v |-> 0, at |-> <<i, k>>]

\* HashMap<K, V>: a set of <<key, value>> entries, at most one per key.
HashMap_new == {}
HashMap_contains(m, k) == \E e \in m : e[1] = k
HashMap_get(m, k) == (CHOOSE e \in m : e[1] = k)[2]
HashMap_without(m, k) == {e \in m : e[1] # k}
\* HashMap::swap inserts or replaces and hands back the value replaced.
HashMap_swap(m, k, v) ==
    [old |-> IF HashMap_contains(m, k) THEN Some(HashMap_get(m, k)) ELSE None_,
     map |-> HashMap_without(m, k) \cup {<<k, v>>}]
\* HashMap::pop removes the entry and hands back its value.
HashMap_pop(m, k) ==
    [old |-> IF HashMap_contains(m, k) THEN Some(HashMap_get(m, k)) ELSE None_,
     map |-> HashMap_without(m, k)]
\* HashMap::find hands back a reference to the stored value.
HashMap_find(m, i, k) ==
    IF HashMap_contains(m, k) THEN Shared(i, k) ELSE None_

\* What a holder of the Option r reads through it.
Deref(r) ==
    IF r.at = <<>> THEN r.v
    ELSE IF HashMap_contains(maps[r.at[1]], r.at[2])
         THEN HashMap_get(maps[r.at[1]], r.at[2])
         ELSE 0
\* V::clone: an owned value equal to the one referred to.
clone(r) == IF r.some THEN Some(Deref(r)) ELSE None_

\* The keyed hash of k under the seeds (a, b).
Hash(k, a, b) == k * (a + 1) + b

\* self.maps.len()
NumShards == Cardinality(DOMAIN maps)
\* ShardMapBox::get_shard
get_shard(k) == Hash(k, k0, k1) % NumShards

\* The plain mapping: ref[k] is the value of k, 0 if k has none.
Ref_swap(r, k, v) == [old |-> r[k], map |-> [r EXCEPT ![k] = v]]
Ref_pop(r, k) == [old |-> r[k], map |-> [r EXCEPT ![k] = 0]]
Ref_find(r, k) == r[k]

NoOp == [op |-> "none", k |-> 0, v |-> 0]

\* The state after with_capacity_and_keys: a map of one of the types in
\* `types` (a ShardMap with a shard count in `counts`), every shard empty
\* and unlocked.  "none": no map was constructed.
MInitFor(types, counts) ==
    /\ mtype \in types
    /\ k0 \in (IF mtype = "ShardMap" THEN Seeds ELSE {0})
    /\ k1 \in (IF mtype = "ShardMap" THEN Seeds ELSE {0})
    /\ \E n \in (IF mtype = "ShardMap" THEN counts
                 ELSE IF mtype = "none" THEN {0} ELSE {1}) :
          /\ maps = [i \in 0..(n - 1) |-> HashMap_new]
          /\ mmutex = [i \in 0..(n - 1) |-> 0]
    /\ mpc = [t \in MapThreads |-> "idle"]
    /\ mop = [t \in MapThreads |-> NoOp]
    /\ mshard = [t \in MapThreads |-> 0]
    /\ mret = [t \in MapThreads |-> None_]
    /\ kept = [t \in MapThreads |-> None_]
    /\ ref = [k \in Keys |-> 0]
    /\ refret = [t \in MapThreads |-> 0]
    /\ single = HashMap_new
    /\ sret = [t \in MapThreads |-> None_]

\* ------------------------------------------------------------------ Init
RECURSIVE SumOver(_, _)
SumOver(f, S) ==
    IF S = {} THEN 0
    ELSE LET x == CHOOSE y \in S : TRUE IN f[x] + SumOver(f, S \ {x})
TotalPushes == SumOver(seq, Threads)

\* The state after `new`: a queue of one of the types in `types` (a bounded
\* one with a capacity in `caps`), handles in the hands of `holders`.
QueuesInit(types, caps, holders) ==
    /\ qtype \in types
    /\ maximum \in (IF qtype \in BoundedTypes THEN caps ELSE {0})
    /\ ptr = [t \in Threads |-> IF t \in holders THEN 1 ELSE 0]
    /\ queue = [b \in Boxes |-> <<>>]
    /\ mutex = [b \in Boxes |-> 0]
    /\ not_empty = [b \in Boxes |-> {}]
    /\ not_full = [b \in Boxes |-> {}]
    /\ pc = [t \in Threads |-> "idle"]
    /\ item = [t \in Threads |-> NoItem]
    /\ ret = [t \in Threads |-> NoItem]
    /\ seq = [t \in Threads |-> 0]
    /\ pushed = EmptyBag
    /\ popped = EmptyBag

\* A program that constructs a queue and no map.
QInitFor(types, caps, holders) ==
    /\ QueuesInit(types, caps, holders)
    /\ MInitFor({"none"}, {0})

\* ------------------------------------------------------------- handles
\* Clone for QueuePtr / BoundedQueuePtr and the four public types: the new
\* handle holds a clone of the Arc, that is, the same box.
Clone_deep(t, u) ==
    /\ ptr[t] = 0
    /\ ptr[u] # 0
    /\ LET b == CHOOSE c \in Boxes : \A w \in Threads : ptr[w] # c
       IN /\ ptr' = [ptr EXCEPT ![t] = b]
          /\ queue' = [queue EXCEPT ![b] = queue[ptr[u]]]
    /\ UNCHANGED <<qtype, maximum, mutex, not_empty, not_full,
                   pc, item, ret, seq, pushed, popped>>
    /\ UNCHANGED mvars

Clone(t, u) ==
    /\ ptr[t] = 0
    /\ ptr[u] # 0
    /\ ptr' = [ptr EXCEPT ![t] = ptr[u]]
    /\ UNCHANGED <<qtype, maximum, queue, mutex, not_empty, not_full,
                   pc, item, ret, seq, pushed, popped>>
    /\ UNCHANGED mvars

\* ------------------------------------------------- QueuePtr (unbounded)
\* Queue::push / BlockingPriorityQueue::push entering QueuePtr::push.
PushCall(t, v) ==
    /\ qtype \in UnboundedTypes
    /\ pc[t] = "idle"
    /\ ptr[t] # 0
    /\ TotalPushes < MaxPush
    /\ seq' = [seq EXCEPT ![t] = @ + 1]
    /\ item' = [item EXCEPT ![t] = [p |-> t, n |-> seq[t] + 1, v |-> v]]
    /\ ret' = [ret EXCEPT ![t] = NoItem]
    /\ pc' = [pc EXCEPT ![t] = "push_lock"]
    /\ UNCHANGED <<qtype, maximum, ptr, queue, mutex, not_empty, not_full,
                   pushed, popped>>
    /\ UNCHANGED mvars

\* box.mutex.lock()
PushLock(t) ==
    /\ pc[t] = "push_lock"
    /\ Mutex_free(ptr[t])
    /\ mutex' = Mutex_lock(ptr[t], t)
    /\ pc' = [pc EXCEPT ![t] = "push_insert"]
    /\ UNCHANGED <<qtype, maximum, ptr, queue, not_empty, not_full,
                   item, ret, seq, pushed, popped>>
    /\ UNCHANGED mvars

PushInsert_signal(t) ==
    /\ pc[t] = "push_insert"
    /\ queue' = [queue EXCEPT ![ptr[t]] = generic_push(qtype, @, item[t])]
    /\ pushed' = pushed (+) SetToBag({item[t]})
    /\ not_empty' \in Cond_signal(not_empty, ptr[t])
    /\ pc' = [pc EXCEPT ![t] = "push_unlock"]
    /\ UNCHANGED <<qtype, maximum, ptr, mutex, not_full, item, ret, seq, popped>>
    /\ UNCHANGED mvars

\* box.queue.generic_push(item)
PushInsert(t) ==
    /\ pc[t] = "push_insert"
    /\ queue' = [queue EXCEPT ![ptr[t]] = generic_push(qtype, @, item[t])]
    /\ pushed' = pushed (+) SetToBag({item[t]})
    /\ pc' = [pc EXCEPT ![t] = "push_unlock"]
    /\ UNCHANGED <<qtype, maximum, ptr, mutex, not_empty, not_full,
                   item, ret, seq, popped>>
    /\ UNCHANGED mvars

\* box.mutex.unlock()
PushUnlock(t) ==
    /\ pc[t] = "push_unlock"
    /\ mutex' = Mutex_unlock(ptr[t])
    /\ pc' = [pc EXCEPT ![t] = "push_signal"]
    /\ UNCHANGED <<qtype, maximum, ptr, queue, not_empty, not_full,
                   item, ret, seq, pushed, popped>>
    /\ UNCHANGED mvars

PushSignal_none(t) ==
    /\ pc[t] = "push_signal"
    /\ pc' = [pc EXCEPT ![t] = "idle"]
    /\ item' = [item EXCEPT ![t] = NoItem]
    /\ UNCHANGED <<qtype, maximum, ptr, queue, mutex, not_empty, not_full,
                   ret, seq, pushed, popped>>
    /\ UNCHANGED mvars

\* box.not_empty.signal(), then return
PushSignal(t) ==
    /\ pc[t] = "push_signal"
    /\ not_empty' \in Cond_signal(not_empty, ptr[t])
    /\ pc' = [pc EXCEPT ![t] = "idle"]
    /\ item' = [item EXCEPT ![t] = NoItem]
    /\ UNCHANGED <<qtype, maximum, ptr, queue, mutex, not_full, ret, seq, pushed, popped>>
    /\ UNCHANGED mvars

\* Queue::pop / BlockingPriorityQueue::pop entering QueuePtr::pop.
PopCall(t) ==
    /\ qtype \in UnboundedTypes
    /\ pc[t] = "idle"
    /\ ptr[t] # 0
    /\ ret' = [ret EXCEPT ![t] = NoItem]
    /\ pc' = [pc EXCEPT ![t] = "pop_lock"]
    /\ UNCHANGED <<qtype, maximum, ptr, queue, mutex, not_empty, not_full,
                   item, seq, pushed, popped>>
    /\ UNCHANGED mvars

\* let mut guard = box.mutex.lock_guard()
PopLock(t) ==
    /\ pc[t] = "pop_lock"
    /\ Mutex_free(ptr[t])
    /\ mutex' = Mutex_lock(ptr[t], t)
    /\ pc' = [pc EXCEPT ![t] = "pop_check"]
    /\ UNCHANGED <<qtype, maximum, ptr, queue, not_empty, not_full,
                   item, ret, seq, pushed, popped>>
    /\ UNCHANGED mvars

PopCheck_holding(t) ==
    /\ pc[t] = "pop_check"
    /\ IF is_empty(queue[ptr[t]])
       THEN /\ not_empty' = Cond_enter(not_empty, ptr[t], t)
            /\ pc' = [pc EXCEPT ![t] = "pop_wait"]
       ELSE /\ pc' = [pc EXCEPT ![t] = "pop_remove"]
            /\ UNCHANGED not_empty
    /\ UNCHANGED <<qtype, maximum, ptr, queue, mutex, not_full, item, ret, seq,
                   pushed, popped>>
    /\ UNCHANGED mvars

\* while box.queue.is_empty() { box.not_empty.wait_guard(&mut guard) }
\* the test, and on an empty queue the entry into the wait
PopCheck(t) ==
    /\ pc[t] = "pop_check"
    /\ IF is_empty(queue[ptr[t]])
       THEN /\ not_empty' = Cond_enter(not_empty, ptr[t], t)
            /\ mutex' = Mutex_unlock(ptr[t])
            /\ pc' = [pc EXCEPT ![t] = "pop_wait"]
       ELSE /\ pc' = [pc EXCEPT ![t] = "pop_remove"]
            /\ UNCHANGED <<not_empty, mutex>>
    /\ UNCHANGED <<qtype, maximum, ptr, queue, not_full, item, ret, seq, pushed, popped>>
    /\ UNCHANGED mvars

PopWake_once(t) ==
    /\ pc[t] = "pop_wait"
    /\ t \notin not_empty[ptr[t]]
    /\ Mutex_free(ptr[t])
    /\ mutex' = Mutex_lock(ptr[t], t)
    /\ pc' = [pc EXCEPT ![t] = "pop_remove"]
    /\ UNCHANGED <<qtype, maximum, ptr, queue, not_empty, not_full,
                   item, ret, seq, pushed, popped>>
    /\ UNCHANGED mvars

\* wait_guard returning: the woken thread takes the mutex again and
\* goes back to the loop test
PopWake(t) ==
    /\ pc[t] = "pop_wait"
    /\ t \notin not_empty[ptr[t]]
    /\ Mutex_free(ptr[t])
    /\ mutex' = Mutex_lock(ptr[t], t)
    /\ pc' = [pc EXCEPT ![t] = "pop_check"]
    /\ UNCHANGED <<qtype, maximum, ptr, queue, not_empty, not_full,
                   item, ret, seq, pushed, popped>>
    /\ UNCHANGED mvars

\* box.queue.generic_pop().get(): get() on None ends the thread
PopRemove(t) ==
    /\ pc[t] = "pop_remove"
    /\ \E r \in generic_pop(qtype, queue[ptr[t]]) :
          IF r.some
          THEN /\ queue' = [queue EXCEPT ![ptr[t]] = r.rest]
               /\ ret' = [ret EXCEPT ![t] = r.item]
               /\ popped' = popped (+) SetToBag({r.item})
               /\ pc' = [pc EXCEPT ![t] = "pop_drop"]
          ELSE /\ pc' = [pc EXCEPT ![t] = "failed"]
               /\ UNCHANGED <<queue, ret, popped>>
    /\ UNCHANGED <<qtype, maximum, ptr, mutex, not_empty, not_full,
                   item, seq, pushed>>
    /\ UNCHANGED mvars

\* the guard goes out of scope: the mutex is released and pop returns
PopDrop(t) ==
    /\ pc[t] = "pop_drop"
    /\ mutex' = Mutex_unlock(ptr[t])
    /\ pc' = [pc EXCEPT ![t] = "idle"]
    /\ UNCHANGED <<qtype, maximum, ptr, queue, not_empty, not_full,
                   item, ret, seq, pushed, popped>>
    /\ UNCHANGED mvars

\* A thread blocked in Cond::wait may wake without a signal.
SpuriousNotEmpty(t) ==
    /\ ptr[t] # 0
    /\ t \in not_empty[ptr[t]]
    /\ not_empty' = Cond_leave(not_empty, ptr[t], t)
    /\ UNCHANGED <<qtype, maximum, ptr, queue, mutex, not_full,
                   pc, item, ret, seq, pushed, popped>>
    /\ UNCHANGED mvars

SpuriousNotFull(t) ==
    /\ ptr[t] # 0
    /\ t \in not_full[ptr[t]]
    /\ not_full' = Cond_leave(not_full, ptr[t], t)
    /\ UNCHANGED <<qtype, maximum, ptr, queue, mutex, not_empty,
                   pc, item, ret, seq, pushed, popped>>
    /\ UNCHANGED mvars

\* ------------------------------------------- BoundedQueuePtr (bounded)
\* BoundedQueue::push / BoundedPriorityQueue::push entering
\* BoundedQueuePtr::push.
BPushCall(t, v) ==
    /\ qtype \in BoundedTypes
    /\ pc[t] = "idle"
    /\ ptr[t] # 0
    /\ TotalPushes < MaxPush
    /\ seq' = [seq EXCEPT ![t] = @ + 1]
    /\ item' = [item EXCEPT ![t] = [p |-> t, n |-> seq[t] + 1, v |-> v]]
    /\ ret' = [ret EXCEPT ![t] = NoItem]
    /\ pc' = [pc EXCEPT ![t] = "bpush_lock"]
    /\ UNCHANGED <<qtype, maximum, ptr, queue, mutex, not_empty, not_full,
                   pushed, popped>>
    /\ UNCHANGED mvars

\* box.mutex.lock()
BPushLock(t) ==
    /\ pc[t] = "bpush_lock"
    /\ Mutex_free(ptr[t])
    /\ mutex' = Mutex_lock(ptr[t], t)
    /\ pc' = [pc EXCEPT ![t] = "bpush_check"]
    /\ UNCHANGED <<qtype, maximum, ptr, queue, not_empty, not_full,
                   item, ret, seq, pushed, popped>>
    /\ UNCHANGED mvars

\* the loop test of push: box.deque.len() == box.maximum
IsFull_greater(q, max) == Len(q) > max
IsFull_positive(q, max) == max > 0 /\ Len(q) = max
IsFull(q, max) == Len(q) = max

\* while box.deque.len() == box.maximum { box.not_full.wait(&mut box.mutex) }
BPushCheck(t) ==
    /\ pc[t] = "bpush_check"
    /\ IF IsFull(queue[ptr[t]], maximum)
       THEN /\ not_full' = Cond_enter(not_full, ptr[t], t)
            /\ mutex' = Mutex_unlock(ptr[t])
            /\ pc' = [pc EXCEPT ![t] = "bpush_wait"]
       ELSE /\ pc' = [pc EXCEPT ![t] = "bpush_insert"]
            /\ UNCHANGED <<not_full, mutex>>
    /\ UNCHANGED <<qtype, maximum, ptr, queue, not_empty, item, ret, seq, pushed, popped>>
    /\ UNCHANGED mvars

BPushWake_unlocked(t) ==
    /\ pc[t] = "bpush_wait"
    /\ t \notin not_full[ptr[t]]
    /\ pc' = [pc EXCEPT ![t] = "bpush_check"]
    /\ UNCHANGED <<qtype, maximum, ptr, queue, mutex, not_empty, not_full,
                   item, ret, seq, pushed, popped>>
    /\ UNCHANGED mvars

\* not_full.wait returning: the mutex is taken again, back to the loop test
BPushWake(t) ==
    /\ pc[t] = "bpush_wait"
    /\ t \notin not_full[ptr[t]]
    /\ Mutex_free(ptr[t])
    /\ mutex' = Mutex_lock(ptr[t], t)
    /\ pc' = [pc EXCEPT ![t] = "bpush_check"]
    /\ UNCHANGED <<qtype, maximum, ptr, queue, not_empty, not_full,
                   item, ret, seq, pushed, popped>>
    /\ UNCHANGED mvars

\* box.deque.generic_push(item)
BPushInsert(t) ==
    /\ pc[t] = "bpush_insert"
    /\ queue' = [queue EXCEPT ![ptr[t]] = generic_push(qtype, @, item[t])]
    /\ pushed' = pushed (+) SetToBag({item[t]})
    /\ pc' = [pc EXCEPT ![t] = "bpush_unlock"]
    /\ UNCHANGED <<qtype, maximum, ptr, mutex, not_empty, not_full,
                   item, ret, seq, popped>>
    /\ UNCHANGED mvars

\* box.mutex.unlock()
BPushUnlock(t) ==
    /\ pc[t] = "bpush_unlock"
    /\ mutex' = Mutex_unlock(ptr[t])
    /\ pc' = [pc EXCEPT ![t] = "bpush_signal"]
    /\ UNCHANGED <<qtype, maximum, ptr, queue, not_empty, not_full,
                   item, ret, seq, pushed, popped>>
    /\ UNCHANGED mvars

BPushSignal_none(t) ==
    /\ pc[t] = "bpush_signal"
    /\ pc' = [pc EXCEPT ![t] = "idle"]
    /\ item' = [item EXCEPT ![t] = NoItem]
    /\ UNCHANGED <<qtype, maximum, ptr, queue, mutex, not_empty, not_full,
                   ret, seq, pushed, popped>>
    /\ UNCHANGED mvars

\* box.not_empty.signal(), then return
BPushSignal(t) ==
    /\ pc[t] = "bpush_signal"
    /\ not_empty' \in Cond_signal(not_empty, ptr[t])
    /\ pc' = [pc EXCEPT ![t] = "idle"]
    /\ item' = [item EXCEPT ![t] = NoItem]
    /\ UNCHANGED <<qtype, maximum, ptr, queue, mutex, not_full, ret, seq, pushed, popped>>
    /\ UNCHANGED mvars

\* BoundedQueue::pop / BoundedPriorityQueue::pop entering
\* BoundedQueuePtr::pop.
BPopCall(t) ==
    /\ qtype \in BoundedTypes
    /\ pc[t] = "idle"
    /\ ptr[t] # 0
    /\ ret' = [ret EXCEPT ![t] = NoItem]
    /\ pc' = [pc EXCEPT ![t] = "bpop_lock"]
    /\ UNCHANGED <<qtype, maximum, ptr, queue, mutex, not_empty, not_full,
                   item, seq, pushed, popped>>
    /\ UNCHANGED mvars

\* box.mutex.lock()
BPopLock(t) ==
    /\ pc[t] = "bpop_lock"
    /\ Mutex_free(ptr[t])
    /\ mutex' = Mutex_lock(ptr[t], t)
    /\ pc' = [pc EXCEPT ![t] = "bpop_check"]
    /\ UNCHANGED <<qtype, maximum, ptr, queue, not_empty, not_full,
                   item, ret, seq, pushed, popped>>
    /\ UNCHANGED mvars

\* while box.deque.is_empty() { box.not_empty.wait(&mut box.mutex) }
BPopCheck(t) ==
    /\ pc[t] = "bpop_check"
    /\ IF is_empty(queue[ptr[t]])
       THEN /\ not_empty' = Cond_enter(not_empty, ptr[t], t)
            /\ mutex' = Mutex_unlock(ptr[t])
            /\ pc' = [pc EXCEPT ![t] = "bpop_wait"]
       ELSE /\ pc' = [pc EXCEPT ![t] = "bpop_remove"]
            /\ UNCHANGED <<not_empty, mutex>>
    /\ UNCHANGED <<qtype, maximum, ptr, queue, not_full, item, ret, seq, pushed, popped>>
    /\ UNCHANGED mvars

\* not_empty.wait returning: the mutex is taken again, back to the loop test
BPopWake(t) ==
    /\ pc[t] = "bpop_wait"
    /\ t \notin not_empty[ptr[t]]
    /\ Mutex_free(ptr[t])
    /\ mutex' = Mutex_lock(ptr[t], t)
    /\ pc' = [pc EXCEPT ![t] = "bpop_check"]
    /\ UNCHANGED <<qtype, maximum, ptr, queue, not_empty, not_full,
                   item, ret, seq, pushed, popped>>
    /\ UNCHANGED mvars

\* let item = box.deque.generic_pop().get()
BPopRemove(t) ==
    /\ pc[t] = "bpop_remove"
    /\ \E r \in generic_pop(qtype, queue[ptr[t]]) :
          IF r.some
          THEN /\ queue' = [queue EXCEPT ![ptr[t]] = r.rest]
               /\ ret' = [ret EXCEPT ![t] = r.item]
               /\ popped' = popped (+) SetToBag({r.item})
               /\ pc' = [pc EXCEPT ![t] = "bpop_unlock"]
          ELSE /\ pc' = [pc EXCEPT ![t] = "failed"]
               /\ UNCHANGED <<queue, ret, popped>>
    /\ UNCHANGED <<qtype, maximum, ptr, mutex, not_empty, not_full,
                   item, seq, pushed>>
    /\ UNCHANGED mvars

\* box.mutex.unlock()
BPopUnlock(t) ==
    /\ pc[t] = "bpop_unlock"
    /\ mutex' = Mutex_unlock(ptr[t])
    /\ pc' = [pc EXCEPT ![t] = "bpop_signal"]
    /\ UNCHANGED <<qtype, maximum, ptr, queue, not_empty, not_full,
                   item, ret, seq, pushed, popped>>
    /\ UNCHANGED mvars

BPopSignal_none(t) ==
    /\ pc[t] = "bpop_signal"
    /\ pc' = [pc EXCEPT ![t] = "idle"]
    /\ UNCHANGED <<qtype, maximum, ptr, queue, mutex, not_empty, not_full,
                   item, ret, seq, pushed, popped>>
    /\ UNCHANGED mvars

\* box.not_full.signal(); item
BPopSignal(t) ==
    /\ pc[t] = "bpop_signal"
    /\ not_full' \in Cond_signal(not_full, ptr[t])
    /\ pc' = [pc EXCEPT ![t] = "idle"]
    /\ UNCHANGED <<qtype, maximum, ptr, queue, mutex, not_empty,
                   item, ret, seq, pushed, popped>>
    /\ UNCHANGED mvars

\* generic_push fails partway (the backing structure cannot take the item):
\* the thread leaves push there.  The push path pairs lock() and unlock()
\* by hand, so the unlock() that follows the insertion is not reached.
PushInsertFails(t) ==
    /\ pc[t] = "push_insert"
    /\ pc' = [pc EXCEPT ![t] = "failed"]
    /\ UNCHANGED <<qtype, maximum, ptr, queue, mutex, not_empty, not_full,
                   item, ret, seq, pushed, popped>>
    /\ UNCHANGED mvars

BPushInsertFails(t) ==
    /\ pc[t] = "bpush_insert"
    /\ pc' = [pc EXCEPT ![t] = "failed"]
    /\ UNCHANGED <<qtype, maximum, ptr, queue, mutex, not_empty, not_full,
                   item, ret, seq, pushed, popped>>
    /\ UNCHANGED mvars

\* ------------------------------- LockedHashMap, ConcurrentHashMap, ShardMap
\* A call on the LockedHashMap maps[i] begins; it first takes the lock.
LockedHashMap_enter(t, o, i) ==
    /\ mop' = [mop EXCEPT ![t] = o]
    /\ mshard' = [mshard EXCEPT ![t] = i]
    /\ mpc' = [mpc EXCEPT ![t] = "lock"]
    /\ UNCHANGED <<mtype, k0, k1, maps, mmutex, mret, kept, ref, refret,
                   single, sret>>
    /\ UNCHANGED qvars

\* ConcurrentHashMap::swap / pop / find: self.box.swap(k, v) and so on, on
\* the one LockedHashMap in the box.
ConcurrentHashMap_swap(t, k, v) ==
    /\ mtype = "ConcurrentHashMap"
    /\ mpc[t] = "idle"
    /\ LockedHashMap_enter(t, [op |-> "swap", k |-> k, v |-> v], 0)

ConcurrentHashMap_pop(t, k) ==
    /\ mtype = "ConcurrentHashMap"
    /\ mpc[t] = "idle"
    /\ LockedHashMap_enter(t, [op |-> "pop", k |-> k, v |-> 0], 0)

ConcurrentHashMap_find(t, k) ==
    /\ mtype = "ConcurrentHashMap"
    /\ mpc[t] = "idle"
    /\ LockedHashMap_enter(t, [op |-> "find", k |-> k, v |-> 0], 0)

\* let shard = self.box.get_shard(&k); self.box.maps[shard].swap(k, v)
\* The remainder by a length of zero ends the call.
ShardMap_enter_first(t, o) ==
    LockedHashMap_enter(t, o, 0)

ShardMap_enter(t, o) ==
    LockedHashMap_enter(t, o, get_shard(o.k))

ShardMap_fail_none(t) ==
    /\ mtype = "ShardMap"
    /\ mpc[t] = "idle"
    /\ NumShards = 0
    /\ mpc' = [mpc EXCEPT ![t] = "unlock"]
    /\ UNCHANGED <<mtype, k0, k1, maps, mmutex, mop, mshard, mret, kept,
                   ref, refret, single, sret>>
    /\ UNCHANGED qvars

ShardMap_fail(t) ==
    /\ mtype = "ShardMap"
    /\ mpc[t] = "idle"
    /\ NumShards = 0
    /\ mpc' = [mpc EXCEPT ![t] = "failed"]
    /\ UNCHANGED <<mtype, k0, k1, maps, mmutex, mop, mshard, mret, kept,
                   ref, refret, single, sret>>
    /\ UNCHANGED qvars

ShardMap_swap(t, k, v) ==
    /\ mtype = "ShardMap"
    /\ mpc[t] = "idle"
    /\ NumShards # 0
    /\ ShardMap_enter(t, [op |-> "swap", k |-> k, v |-> v])

ShardMap_pop_unseeded(t, k) ==
    /\ mtype = "ShardMap"
    /\ mpc[t] = "idle"
    /\ NumShards # 0
    /\ LockedHashMap_enter(t, [op |-> "pop", k |-> k, v |-> 0],
                           Hash(k, 0, 0) % NumShards)

ShardMap_pop(t, k) ==
    /\ mtype = "ShardMap"
    /\ mpc[t] = "idle"
    /\ NumShards # 0
    /\ ShardMap_enter(t, [op |-> "pop", k |-> k, v |-> 0])

ShardMap_find(t, k) ==
    /\ mtype = "ShardMap"
    /\ mpc[t] = "idle"
    /\ NumShards # 0
    /\ ShardMap_enter(t, [op |-> "find", k |-> k, v |-> 0])

\* The mutex a call on maps[shard] locks: the `mutex` field of that very
\* LockedHashMap.
self_mutex_first(t) == 0
self_mutex(t) == mshard[t]

\* self.mutex.lock_guard()
LockedHashMap_lock(t) ==
    /\ mpc[t] = "lock"
    /\ mmutex[self_mutex(t)] = 0
    /\ mmutex' = [mmutex EXCEPT ![self_mutex(t)] = t]
    /\ mpc' = [mpc EXCEPT ![t] = "body"]
    /\ UNCHANGED <<mtype, k0, k1, maps, mop, mshard, mret, kept, ref, refret,
                   single, sret>>
    /\ UNCHANGED qvars

\* The results of the three bodies, computed under the lock.
swap_new(m, k, v) == [old |-> Some(v), map |-> HashMap_swap(m, k, v).map]
swap_body(m, k, v) == HashMap_swap(m, k, v)
pop_body(m, k) == HashMap_pop(m, k)
\* self.map.find(k).map(|v| v.clone())
find_shared(m, i, k) == HashMap_find(m, i, k)
find_body(m, i, k) == clone(HashMap_find(m, i, k))
\* The same on the single map, which is no shard of `maps`: the value is
\* read from the map given.
find_single(m, k) ==
    IF HashMap_contains(m, k) THEN Some(HashMap_get(m, k)) ELSE None_

\* self.map.swap(k, v)
LockedHashMap_swap(t) ==
    /\ mpc[t] = "body"
    /\ mop[t].op = "swap"
    /\ LET r == swap_body(maps[mshard[t]], mop[t].k, mop[t].v)
           q == Ref_swap(ref, mop[t].k, mop[t].v)
           o == swap_body(single, mop[t].k, mop[t].v)
       IN /\ maps' = [maps EXCEPT ![mshard[t]] = r.map]
          /\ mret' = [mret EXCEPT ![t] = r.old]
          /\ ref' = q.map
          /\ refret' = [refret EXCEPT ![t] = q.old]
          /\ single' = o.map
          /\ sret' = [sret EXCEPT ![t] = o.old]
    /\ mpc' = [mpc EXCEPT ![t] = "unlock"]
    /\ UNCHANGED <<mtype, k0, k1, mmutex, mop, mshard, kept>>
    /\ UNCHANGED qvars

\* self.map.pop(k)
LockedHashMap_pop(t) ==
    /\ mpc[t] = "body"
    /\ mop[t].op = "pop"
    /\ LET r == pop_body(maps[mshard[t]], mop[t].k)
           q == Ref_pop(ref, mop[t].k)
           o == pop_body(single, mop[t].k)
       IN /\ maps' = [maps EXCEPT ![mshard[t]] = r.map]
          /\ mret' = [mret EXCEPT ![t] = r.old]
          /\ ref' = q.map
          /\ refret' = [refret EXCEPT ![t] = q.old]
          /\ single' = o.map
          /\ sret' = [sret EXCEPT ![t] = o.old]
    /\ mpc' = [mpc EXCEPT ![t] = "unlock"]
    /\ UNCHANGED <<mtype, k0, k1, mmutex, mop, mshard, kept>>
    /\ UNCHANGED qvars

\* self.map.find(k).map(|v| v.clone())
LockedHashMap_find(t) ==
    /\ mpc[t] = "body"
    /\ mop[t].op = "find"
    /\ mret' = [mret EXCEPT ![t] =
                   find_body(maps[mshard[t]], mshard[t], mop[t].k)]
    /\ refret' = [refret EXCEPT ![t] = Ref_find(ref, mop[t].k)]
    /\ sret' = [sret EXCEPT ![t] = find_single(single, mop[t].k)]
    /\ mpc' = [mpc EXCEPT ![t] = "unlock"]
    /\ UNCHANGED <<mtype, k0, k1, maps, mmutex, mop, mshard, kept, ref, single>>
    /\ UNCHANGED qvars

\* The guard goes out of scope: the lock is released and the call returns
\* its result to the caller, who keeps what a find gave it.
LockedHashMap_unlock(t) ==
    /\ mpc[t] = "unlock"
    /\ mmutex' = [i \in DOMAIN mmutex |-> IF mmutex[i] = t THEN 0 ELSE mmutex[i]]
    /\ mpc' = [mpc EXCEPT ![t] = "idle"]
    /\ kept' = IF mop[t].op = "find" THEN [kept EXCEPT ![t] = mret[t]] ELSE kept
    /\ mop' = [mop EXCEPT ![t] = NoOp]
    /\ mret' = [mret EXCEPT ![t] = None_]
    /\ refret' = [refret EXCEPT ![t] = 0]
    /\ sret' = [sret EXCEPT ![t] = None_]
    /\ UNCHANGED <<mtype, k0, k1, maps, mshard, ref, single>>
    /\ UNCHANGED qvars

\* ------------------------------------------------------ specification
\* The steps of a call in progress (everything but the start of a call).
UStep(t) ==
    \/ PushLock(t) \/ PushInsert(t) \/ PushUnlock(t) \/ PushSignal(t)
    \/ PopLock(t) \/ PopCheck(t) \/ PopWake(t) \/ PopRemove(t) \/ PopDrop(t)

BStep(t) ==
    \/ BPushLock(t) \/ BPushCheck(t) \/ BPushWake(t) \/ BPushInsert(t)
    \/ BPushUnlock(t) \/ BPushSignal(t)
    \/ BPopLock(t) \/ BPopCheck(t) \/ BPopWake(t) \/ BPopRemove(t)
    \/ BPopUnlock(t) \/ BPopSignal(t)

\* The unbounded engine, the bounded engine, and both, pushing items
\* whose priorities are drawn from V.
UNext(V) ==
    \E t \in Threads :
        \/ \E u \in Threads : Clone(t, u)
        \/ \E v \in V : PushCall(t, v)
        \/ PopCall(t)
        \/ UStep(t)
        \/ SpuriousNotEmpty(t)

BNext(V) ==
    \E t \in Threads :
        \/ \E u \in Threads : Clone(t, u)
        \/ \E v \in V : BPushCall(t, v)
        \/ BPopCall(t)
        \/ BStep(t)
        \/ SpuriousNotEmpty(t)
        \/ SpuriousNotFull(t)

QNext(V) ==
    \E t \in Threads :
        \/ \E u \in Threads : Clone(t, u)
        \/ \E v \in V : PushCall(t, v)
        \/ PopCall(t)
        \/ UStep(t)
        \/ \E v \in V : BPushCall(t, v)
        \/ BPopCall(t)
        \/ BStep(t)
        \/ SpuriousNotEmpty(t)
        \/ SpuriousNotFull(t)

\* All four queue types, every capacity, items of one priority.
Init == QInitFor(QueueTypes, 0..MaxCap, {1})
Next == QNext(PlainValues)
Spec == Init /\ [][Next]_vars

\* The calls of both engines without Clone: every handle there will be
\* exists from the start.
CallsNext(V) ==
    \E t \in Threads :
        \/ \E v \in V : PushCall(t, v)
        \/ PopCall(t)
        \/ UStep(t)
        \/ \E v \in V : BPushCall(t, v)
        \/ BPopCall(t)
        \/ BStep(t)
        \/ SpuriousNotEmpty(t)
        \/ SpuriousNotFull(t)

\* The two priority queues, items of every priority, two threads holding
\* a handle each (the creator's and a clone of it).
PrioInit ==
    QInitFor({"BlockingPriorityQueue", "BoundedPriorityQueue"}, 0..MaxCap, {1, 2})
PrioNext == CallsNext(Values)
PrioSpec == PrioInit /\ [][PrioNext]_vars

\* Threads are scheduled preemptively: a thread that can take its next
\* step (the mutex it wants is free, its wait has been ended) takes it.
\* Nothing obliges a thread to start a call, and no wakeup has to happen
\* without a signal.
QueueInit == QInitFor({"Queue"}, {0}, {1, 2})
QueueNext ==
    \E t \in Threads :
        \/ \E v \in PlainValues : PushCall(t, v)
        \/ PopCall(t)
        \/ UStep(t)
        \/ SpuriousNotEmpty(t)
FairQueueSpec ==
    QueueInit /\ [][QueueNext]_vars /\ \A t \in Threads : WF_vars(UStep(t))

BoundedInit == QInitFor({"BoundedQueue"}, 0..MaxCap, Threads)
BoundedNext ==
    \E t \in Threads :
        \/ \E v \in PlainValues : BPushCall(t, v)
        \/ BPopCall(t)
        \/ BStep(t)
        \/ SpuriousNotEmpty(t)
        \/ SpuriousNotFull(t)
\* Taking the mutex: a thread that finds it free again and again gets it.
BAcquire(t) == BPushLock(t) \/ BPushWake(t) \/ BPopLock(t) \/ BPopWake(t)
FairBoundedSpec ==
    /\ BoundedInit /\ [][BoundedNext]_vars
    /\ \A t \in Threads : WF_vars(BStep(t)) /\ SF_vars(BAcquire(t))

\* Both engines under the same scheduling, two threads holding a handle
\* each: a thread that can take its next step takes it, and a thread that
\* finds the mutex free again and again gets it.
FairInit == QInitFor(QueueTypes, 0..MaxCap, {1, 2})
FairNext == CallsNext(PlainValues)
Acquire(t) == PushLock(t) \/ PopLock(t) \/ PopWake(t) \/ BAcquire(t)
FairSpec ==
    /\ FairInit /\ [][FairNext]_vars
    /\ \A t \in Threads :
          WF_vars(UStep(t) \/ BStep(t)) /\ SF_vars(Acquire(t))

\* A BoundedQueue whose items differ in value, two threads holding a
\* handle each.
OrderedInit == QInitFor({"BoundedQueue"}, 0..MaxCap, {1, 2})
OrderedNext ==
    \E t \in Threads :
        \/ \E v \in Values : BPushCall(t, v)
        \/ BPopCall(t)
        \/ BStep(t)
        \/ SpuriousNotEmpty(t)
        \/ SpuriousNotFull(t)
OrderedSpec == OrderedInit /\ [][OrderedNext]_vars

\* Both engines where an insertion into the backing structure may fail.
FailInit == QInitFor(QueueTypes, 0..MaxCap, {1, 2})
FailNext ==
    \/ CallsNext(PlainValues)
    \/ \E t \in Threads : PushInsertFails(t) \/ BPushInsertFails(t)
FailSpec == FailInit /\ [][FailNext]_vars

\* The maps alone: a ConcurrentHashMap, or a ShardMap of any shard count,
\* called by two threads.
MapInit ==
    /\ QueuesInit({"none"}, {0}, {})
    /\ MInitFor(MapTypes, 0..MaxShards)
MapStep(t) ==
    \/ LockedHashMap_lock(t)
    \/ LockedHashMap_swap(t)
    \/ LockedHashMap_pop(t)
    \/ LockedHashMap_find(t)
    \/ LockedHashMap_unlock(t)
MapNext ==
    \E t \in MapThreads :
        \/ \E k \in Keys : \E v \in MapValues : ConcurrentHashMap_swap(t, k, v)
        \/ \E k \in Keys : ConcurrentHashMap_pop(t, k)
        \/ \E k \in Keys : ConcurrentHashMap_find(t, k)
        \/ \E k \in Keys : \E v \in MapValues : ShardMap_swap(t, k, v)
        \/ \E k \in Keys : ShardMap_pop(t, k)
        \/ \E k \in Keys : ShardMap_find(t, k)
        \/ ShardMap_fail(t)
        \/ MapStep(t)
MapSpec == MapInit /\ [][MapNext]_vars

\* A program that uses one of the structures: a queue of any of the four
\* types, or a map of either type.
AnyInit == FairInit \/ MapInit
AnyNext == CallsNext(PlainValues) \/ MapNext
AnySpec == AnyInit /\ [][AnyNext]_vars

\* ------------------------------------------------------------- claims
\* The collection of the queue under test: the box `new` allocated.
TheQueue == queue[1]
Range(q) == {q[i] : i \in DOMAIN q}
RECURSIVE SeqToBag(_)
SeqToBag(q) ==
    IF q = <<>> THEN EmptyBag ELSE SetToBag({Head(q)}) (+) SeqToBag(Tail(q))

\* C1: a bounded queue never holds more items than its capacity, whatever
\* the interleaving of the pushing and popping threads.
C1_LengthWithinCapacity ==
    qtype \in BoundedTypes => \A b \in Boxes : Len(queue[b]) <= maximum

\* a bounded queue filled to a capacity of at least one, a push blocked on it
C1_Witness ==
    /\ qtype \in BoundedTypes
    /\ maximum = MaxCap
    /\ Len(TheQueue) = maximum
    /\ \E t \in Threads : pc[t] = "bpush_wait" /\ t \in not_full[ptr[t]]

\* C2: on a Queue no item is lost or duplicated: the items popped together
\* with the items still queued are exactly the items pushed, whichever
\* handle each push and pop went through.  (A pop counts from its removal
\* step on: from then on the popping thread holds the value it returns.)
C2_NoLossNoDuplication ==
    qtype = "Queue" => popped (+) SeqToBag(TheQueue) = pushed

\* every push of the run was made, by at least two handles, and everything
\* was popped again, one item by a thread other than its producer
C2_Witness ==
    /\ qtype = "Queue"
    /\ BagCardinality(pushed) = MaxPush
    /\ \E x, y \in BagToSet(pushed) : x.p # y.p
    /\ TheQueue = <<>>
    /\ popped = pushed
    /\ \E t \in Threads : pc[t] = "idle" /\ ret[t] # NoItem /\ ret[t].p # t

\* The thread whose removal step this is, if any.
Removes(t) ==
    /\ pc[t] \in {"pop_remove", "bpop_remove"}
    /\ pc'[t] \in {"pop_drop", "bpop_unlock"}

\* C3: from a FIFO queue (Queue, BoundedQueue) the items of one producer
\* are removed in the order that producer pushed them: an item is removed
\* only after every item the same thread pushed before it, never after
\* one it pushed later.
C3_FifoPerProducer ==
    [][\A t \in Threads :
          (Removes(t) /\ qtype \in {"Queue", "BoundedQueue"}) =>
              /\ \A y \in BagToSet(popped) :
                    y.p = ret'[t].p => y.n < ret'[t].n
              /\ \A i \in DOMAIN queue'[ptr[t]] :
                    queue'[ptr[t]][i].p = ret'[t].p
                        => queue'[ptr[t]][i].n > ret'[t].n]_vars

\* two items of one producer popped, in order, by two different threads,
\* with an item of another producer pushed as well
C3_Witness ==
    /\ qtype \in {"Queue", "BoundedQueue"}
    /\ \E t, u \in Threads :
          /\ t # u
          /\ pc[t] = "idle" /\ pc[u] = "idle"
          /\ ret[t] # NoItem /\ ret[u] # NoItem
          /\ ret[t].p = ret[u].p
          /\ ret[t].n = 1 /\ ret[u].n = 2
    /\ \E x, y \in BagToSet(pushed) : x.p # y.p

\* Every removal order the queue type allows for the items of q.
RECURSIVE Drain(_, _)
Drain(ty, q) ==
    IF q = <<>> THEN {<<>>}
    ELSE UNION {{<<r.item>> \o rest : rest \in Drain(ty, r.rest)} :
                    r \in generic_pop(ty, q)}
RECURSIVE PushAll(_, _, _)
PushAll(ty, q, xs) ==
    IF xs = <<>> THEN q
    ELSE PushAll(ty, generic_push(ty, q, Head(xs)), Tail(xs))
ValueOf(n) == [p |-> 1, n |-> 1, v |-> n]
ValuesOf(xs) == [i \in DOMAIN xs |-> xs[i].v]

\* C4: a pop of a priority queue removes an item that is at least as large
\* as every item left in the collection at that instant; so pushing
\* 3, 1, 4, 1, 5 and popping five times yields 5, 4, 3, 1, 1.
C4_PopsMaximum ==
    /\ [][\A t \in Threads :
            (Removes(t) /\ Backing(qtype) = "PriorityQueue") =>
                \A i \in DOMAIN queue'[ptr[t]] :
                    queue'[ptr[t]][i].v <= ret'[t].v]_vars
    /\ \A ty \in {"BlockingPriorityQueue", "BoundedPriorityQueue"} :
            {ValuesOf(d) : d \in Drain(ty, PushAll(ty, <<>>,
                <<ValueOf(3), ValueOf(1), ValueOf(4), ValueOf(1), ValueOf(5)>>))}
                = {<<5, 4, 3, 1, 1>>}

\* a pop has just taken the largest item past smaller ones pushed before it
C4_Witness ==
    /\ Backing(qtype) = "PriorityQueue"
    /\ \E t \in Threads :
          /\ pc[t] \in {"pop_drop", "bpop_unlock"}
          /\ ret[t].v = MaxVal
          /\ Len(queue[ptr[t]]) >= 1
          /\ \A i \in DOMAIN queue[ptr[t]] :
                /\ queue[ptr[t]][i].v < ret[t].v
                /\ queue[ptr[t]][i].p = ret[t].p
                /\ queue[ptr[t]][i].n < ret[t].n

\* Thread t is inside a pop that has not removed an item yet.
PopPending(t) == pc[t] \in {"pop_lock", "pop_check", "pop_wait", "pop_remove"}
OtherPopper(t) ==
    \E u \in Threads \ {t} :
        pc[u] \in {"pop_lock", "pop_check", "pop_wait", "pop_remove", "pop_drop"}

\* C5: a pop on an empty Queue does not return while the queue is empty
\* (no step of a pending pop taken on an empty queue removes or returns),
\* and once a value v is at the front of the queue while the pop is
\* blocked, the pop returns v, unless another popper competes for it.
C5_PopBlocksUntilPush ==
    /\ [][\A t \in Threads :
            (PopPending(t) /\ is_empty(queue[ptr[t]])) =>
                /\ PopPending(t)'
                /\ ret'[t] = NoItem]_vars
    /\ \A t \in Threads : \A x \in [p : Threads \ {t}, n : 1..MaxPush, v : PlainValues] :
          (pc[t] = "pop_wait" /\ TheQueue # <<>> /\ Head(TheQueue) = x)
              ~> ((pc[t] = "idle" /\ ret[t] = x) \/ OtherPopper(t))

\* a pop that waited on the empty queue has returned the value another
\* thread pushed meanwhile
C5_Witness ==
    /\ qtype = "Queue"
    /\ \E t \in Threads :
          /\ pc[t] = "idle"
          /\ ret[t] # NoItem
          /\ ret[t].p # t
          /\ BagCardinality(pushed) = 1
          /\ \A u \in Threads \ {t} : seq[u] = 0 \/ ptr[u] = ptr[t]

\* Thread t is inside a push that has not inserted its item yet.
PushPending(t) ==
    pc[t] \in {"bpush_lock", "bpush_check", "bpush_wait", "bpush_insert"}
OtherPusher(t) ==
    \E u \in Threads \ {t} :
        pc[u] \in {"bpush_lock", "bpush_check", "bpush_wait", "bpush_insert"}
\* Thread t's latest push has inserted its item and returned.
PushReturned(t) ==
    /\ pc[t] = "idle"
    /\ \E x \in BagToSet(pushed) : x.p = t /\ x.n = seq[t]

\* A push on a full bounded queue blocks: no step of a pending push taken
\* on a full queue inserts or returns; a push is never rejected (it never
\* ends without its item inserted) and never dropped (what it inserted is
\* its own item).
C6_BlocksWhileFull ==
    [][\A t \in Threads :
          /\ (PushPending(t) /\ IsFull(queue[ptr[t]], maximum)) =>
                (PushPending(t)' /\ pushed' = pushed)
          /\ (PushPending(t) /\ ~PushPending(t)') =>
                (pc'[t] = "bpush_unlock" /\ pushed' = pushed (+) SetToBag({item[t]})
                    /\ item[t] \in Range(queue'[ptr[t]]))]_vars

\* C6 as stated: once a slot is free, every blocked push eventually
\* inserts its item and returns.
C6_EveryBlockedPushCompletes ==
    /\ C6_BlocksWhileFull
    /\ \A t \in Threads :
          (pc[t] = "bpush_wait" /\ ~IsFull(TheQueue, maximum)) ~> PushReturned(t)

\* C6, amended: once a slot is free, a blocked push eventually inserts its
\* item and returns, unless another push competes for the slot.
C6_BlockedPushCompletes ==
    /\ C6_BlocksWhileFull
    /\ \A t \in Threads :
          (pc[t] = "bpush_wait" /\ ~IsFull(TheQueue, maximum))
              ~> (PushReturned(t) \/ OtherPusher(t))

\* a push that waited on a full queue of capacity one or more has returned
\* with its item in the queue, after a pop by another thread made room
C6_Witness ==
    /\ maximum >= 1
    /\ BagCardinality(popped) = 1
    /\ \E t \in Threads :
          /\ PushReturned(t)
          /\ seq[t] = 1
          /\ BagCardinality(pushed) = maximum + 1
          /\ IsFull(TheQueue, maximum)
          /\ \A x \in BagToSet(popped) : x.p # t
          /\ \E u \in Threads \ {t} : pc[u] = "idle" /\ ret[u] # NoItem

\* ---------------------------------------------------------- claims, maps
\* The value stored for k in the HashMap m, 0 if there is none.
Lookup(m, k) == IF HashMap_contains(m, k) THEN HashMap_get(m, k) ELSE 0
\* An Option as the plain mapping writes it.
Plain(r) == IF r.some THEN Deref(r) ELSE 0
InCritical(t) == mpc[t] \in {"body", "unlock"}
InCall(t) == mpc[t] \in {"lock", "body", "unlock"}

\* C7: every swap, pop and find on a ConcurrentHashMap returns what the
\* plain key-to-value mapping answers to the same call, and the map holds
\* what the mapping holds; on an empty map swap(a,1), swap(a,2), pop(a),
\* find(a) return none, 1, 2, none.
C7_AgreesWithMapping ==
    /\ mtype = "ConcurrentHashMap" =>
          /\ \A k \in Keys : Lookup(maps[0], k) = ref[k]
          /\ \A t \in MapThreads :
                mpc[t] = "unlock" => Plain(mret[t]) = refret[t]
    /\ LET s1 == swap_body(HashMap_new, 1, 1)
           s2 == swap_body(s1.map, 1, 2)
           s3 == pop_body(s2.map, 1)
           s4 == find_body(s3.map, 0, 1)
       IN /\ s1.old = None_
          /\ s2.old = Some(1)
          /\ s3.old = Some(2)
          /\ s4 = None_
\* A pop is returning the value 2 of a key, which a swap had stored, and
\* has removed the entry.
C7_Witness ==
    /\ mtype = "ConcurrentHashMap"
    /\ \E t \in MapThreads :
          /\ mpc[t] = "unlock"
          /\ mop[t].op = "pop"
          /\ mret[t] = Some(2)
          /\ ~HashMap_contains(maps[0], mop[t].k)

\* C8: find reads the stored value while it holds the lock and returns
\* what it read; what the caller then holds reads the same ever after,
\* whatever swap and pop, the caller's own included, do to the map.
C8_FindReturnsCopy ==
    [][\A t \in MapThreads :
          /\ LockedHashMap_find(t) =>
                /\ mmutex[mshard[t]] = t
                /\ Plain(mret[t])' = Lookup(maps[mshard[t]], mop[t].k)
          /\ (LockedHashMap_unlock(t) /\ mop[t].op = "find") =>
                Plain(kept[t])' = Plain(mret[t])
          /\ kept'[t] = kept[t] => Plain(kept[t])' = Plain(kept[t])]_vars
\* A thread holds the value 1 a find returned to it, and has itself just
\* removed or replaced that value: no shard stores a 1 any more.
C8_Witness ==
    \E t \in MapThreads :
        /\ kept[t] = Some(1)
        /\ mpc[t] = "unlock"
        /\ mop[t].op \in {"swap", "pop"}
        /\ mret[t] = Some(1)
        /\ \A i \in DOMAIN maps : \A e \in maps[i] : e[2] # 1

\* C9: the seeds and the number of shards of a ShardMap never change;
\* get_shard gives every key one index in 0..N-1, the same in every state;
\* a call runs on that shard and an entry is stored in no other.
C9_ShardOfKeyIsFixed ==
    /\ [][/\ k0' = k0
          /\ k1' = k1
          /\ NumShards' = NumShards
          /\ (mtype = "ShardMap" /\ NumShards >= 1) =>
                \A k \in Keys : get_shard(k)' = get_shard(k)]_vars
    /\ []((mtype = "ShardMap" /\ NumShards >= 1) =>
            /\ \A k \in Keys : get_shard(k) \in 0..(NumShards - 1)
            /\ \A t \in MapThreads :
                  InCall(t) => mshard[t] = get_shard(mop[t].k)
            /\ \A i \in DOMAIN maps : \A e \in maps[i] : get_shard(e[1]) = i)
\* Two shards, each storing a key.
C9_Witness ==
    /\ mtype = "ShardMap"
    /\ NumShards = 2
    /\ maps[0] # {}
    /\ maps[1] # {}

\* C10: a call on a ShardMap holds the mutex of the shard of its key and no
\* other; two threads are never both inside the critical section of one
\* shard, so never both on one key; a thread about to lock is never held
\* up by a thread whose key routes to another shard.
C10_LocksOnlyOwnShard ==
    mtype = "ShardMap" =>
        /\ \A i \in DOMAIN mmutex : \A t \in MapThreads :
              mmutex[i] = t => (InCritical(t) /\ mshard[t] = i)
        /\ \A t \in MapThreads : InCritical(t) => mmutex[mshard[t]] = t
        /\ \A t \in MapThreads, u \in MapThreads :
              (t # u /\ InCritical(t) /\ InCritical(u)) =>
                  /\ mshard[t] # mshard[u]
                  /\ mop[t].k # mop[u].k
        /\ \A t \in MapThreads, u \in MapThreads :
              (t # u /\ mpc[t] = "lock" /\ InCall(u)
                     /\ get_shard(mop[t].k) # get_shard(mop[u].k)) =>
                  mmutex[self_mutex(t)] # u
\* Two threads are inside the critical sections of two shards at once.
C10_Witness ==
    /\ mtype = "ShardMap"
    /\ mpc[1] = "body"
    /\ mpc[2] = "body"
    /\ mshard[1] # mshard[2]
    /\ mmutex[mshard[1]] = 1
    /\ mmutex[mshard[2]] = 2

\* ------------------------------------------------ claims, second part
\* Thread t is inside QueuePtr::push.
InPush(t) == pc[t] \in {"push_lock", "push_insert", "push_unlock", "push_signal"}
\* Thread t is suspended in a wait on one of the two conditions.
Waiting(t) == pc[t] \in {"pop_wait", "bpop_wait", "bpush_wait"}
InWaitSet(t) == ptr[t] # 0 /\ (t \in not_empty[ptr[t]] \/ t \in not_full[ptr[t]])

\* C11: a push on an unbounded queue is never in a wait on a condition;
\* once it holds the mutex each of its remaining steps can be taken at
\* once, whatever the queue holds and whoever waits; no thread holds the
\* mutex while it waits on a condition, and a push that wants the mutex
\* eventually has inserted its item and returned.  A wait is entered only
\* by a pop that found the queue empty or by a bounded push that found it
\* full.
C11_PushNeverWaits ==
    /\ [](\A t \in Threads :
            /\ InPush(t) => (~Waiting(t) /\ ~InWaitSet(t))
            /\ pc[t] \in {"push_insert", "push_unlock", "push_signal"} =>
                  ENABLED UStep(t)
            /\ (Waiting(t) \/ InWaitSet(t)) => mutex[ptr[t]] # t)
    /\ [][\A t \in Threads :
            (~Waiting(t) /\ Waiting(t)') =>
                \/ pc[t] \in {"pop_check", "bpop_check"} /\ is_empty(queue[ptr[t]])
                \/ pc[t] = "bpush_check" /\ IsFull(queue[ptr[t]], maximum)]_vars
    /\ \A t \in Threads :
          pc[t] = "push_lock" ~>
              (pc[t] = "idle" /\ \E x \in BagToSet(pushed) : x.p = t /\ x.n = seq[t])
\* A push has returned with the queue MaxPush items long while a popper,
\* woken by an earlier push, has not left its wait yet.
C11_Witness ==
    /\ qtype \in UnboundedTypes
    /\ Len(TheQueue) = MaxPush
    /\ \E t \in Threads, u \in Threads :
          /\ pc[t] = "idle"
          /\ seq[t] >= 1
          /\ pc[u] = "pop_wait"

\* C12: the value a pop of a BoundedQueue has removed is at least as large
\* as every value left in the queue at that moment (the popping thread
\* still holds the mutex, so the queue is as the removal left it).
C12_BoundedQueuePopsLargest ==
    qtype = "BoundedQueue" =>
        \A t \in Threads :
            pc[t] = "bpop_unlock" =>
                \A i \in DOMAIN queue[ptr[t]] : queue[ptr[t]][i].v <= ret[t].v

\* C13: a thread that has left a push because its insertion failed does
\* not hold the mutex, so the other threads can still take it.
C13_FailedPushReleasesMutex ==
    \A t \in Threads : pc[t] = "failed" => mutex[ptr[t]] # t

\* Thread t is about to read or change the collection of its queue.
Accesses(t) ==
    pc[t] \in {"pop_check", "pop_remove", "push_insert",
               "bpush_check", "bpush_insert", "bpop_check", "bpop_remove"}
\* Thread t is between taking and releasing the mutex of its queue.
Locked(t) ==
    pc[t] \in {"pop_check", "pop_remove", "pop_drop", "push_insert",
               "push_unlock", "bpush_check", "bpush_insert", "bpush_unlock",
               "bpop_check", "bpop_remove", "bpop_unlock"}

\* C14: a thread about to test, insert into or remove from a queue's
\* collection, or inside swap, pop or find of a map, holds that
\* structure's mutex; no two threads are between lock and unlock of one
\* mutex; the collection changes only in a step of the thread that holds
\* its mutex; a thread in a wait does not hold the mutex, and leaves the
\* wait holding it, back at the test of the collection.
C14_MutexDiscipline ==
    /\ [](/\ \A t \in Threads :
                ptr[t] # 0 =>
                    /\ (Accesses(t) \/ Locked(t)) => mutex[ptr[t]] = t
                    /\ Waiting(t) => mutex[ptr[t]] # t
                    /\ \A u \in Threads \ {t} :
                          ptr[u] = ptr[t] => ~(Locked(t) /\ Locked(u))
          /\ \A t \in MapThreads :
                /\ InCritical(t) => mmutex[mshard[t]] = t
                /\ \A u \in MapThreads \ {t} :
                      (InCritical(t) /\ InCritical(u)) => mshard[t] # mshard[u])
    /\ [][/\ queue' # queue =>
                \E t \in Threads :
                    /\ pc'[t] # pc[t]
                    /\ mutex[ptr[t]] = t
                    /\ \A b \in Boxes \ {ptr[t]} : queue'[b] = queue[b]
          /\ maps' # maps =>
                \E t \in MapThreads :
                    /\ mpc'[t] # mpc[t]
                    /\ mmutex[mshard[t]] = t
                    /\ \A i \in DOMAIN maps \ {mshard[t]} : maps'[i] = maps[i]
          /\ \A t \in Threads :
                (Waiting(t) /\ ~Waiting(t)') =>
                    /\ mutex'[ptr[t]] = t
                    /\ pc'[t] \in {"pop_check", "bpush_check", "bpop_check"}]_vars
\* A pusher whose wait on not_full has been ended has not taken the mutex
\* again yet, because a popper holds it and is about to remove an item.
C14_Witness ==
    \E t \in Threads, u \in Threads :
        /\ pc[t] = "bpush_wait"
        /\ t \notin not_full[ptr[t]]
        /\ pc[u] = "bpop_remove"
        /\ mutex[ptr[t]] = u

\* C15: a pop that is at its removal step finds the collection non-empty,
\* and no thread has ended in a failed unwrap, with several poppers on one
\* queue and wakeups that come without a signal or after another popper
\* took the item.
C15_RemovalFindsItem ==
    \A t \in Threads :
        /\ pc[t] \in {"pop_remove", "bpop_remove"} => ~is_empty(queue[ptr[t]])
        /\ pc[t] # "failed"
\* A popper has been woken and another popper has just removed the only
\* item: the woken one will find the queue empty.
C15_Witness ==
    \E t \in Threads, u \in Threads :
        /\ pc[t] \in {"pop_wait", "bpop_wait"}
        /\ t \notin not_empty[ptr[t]]
        /\ pc[u] \in {"pop_drop", "bpop_unlock"}
        /\ ptr[u] = ptr[t]
        /\ is_empty(queue[ptr[t]])

\* The step from the current state signals the condition c of box b once:
\* it takes one thread out of the wait set, or none if the set is empty.
SignalsOnce(c, b) ==
    IF c[b] = {} THEN c' = c
    ELSE \E u \in c[b] : c' = [c EXCEPT ![b] = c[b] \ {u}]

\* C16: a push (of either engine) goes through take the mutex, insert,
\* release the mutex, signal not_empty once, return, in that order, and a
\* bounded pop through remove, release, signal not_full once, return; a
\* signal is given by a thread that does not hold the mutex, only at that
\* place, and takes at most one thread out of the wait set.
C16_SignalAfterUnlock ==
    [][\A t \in Threads :
          (ptr[t] # 0 /\ pc'[t] # pc[t]) =>
              LET b == ptr[t] IN
              /\ pc[t] \in {"push_lock", "bpush_lock"} =>
                    (mutex[b] = 0 /\ mutex'[b] = t /\ queue' = queue)
              /\ pc[t] = "push_lock" => pc'[t] = "push_insert"
              /\ pc[t] \in {"push_insert", "bpush_insert"} =>
                    /\ pc'[t] = (IF pc[t] = "push_insert" THEN "push_unlock"
                                 ELSE "bpush_unlock")
                    /\ mutex[b] = t /\ mutex'[b] = t
                    /\ SeqToBag(queue'[b]) = SeqToBag(queue[b]) (+) SetToBag({item[t]})
              /\ pc[t] \in {"push_unlock", "bpush_unlock"} =>
                    /\ pc'[t] = (IF pc[t] = "push_unlock" THEN "push_signal"
                                 ELSE "bpush_signal")
                    /\ mutex[b] = t /\ mutex'[b] = 0
                    /\ queue' = queue
              /\ pc[t] \in {"push_signal", "bpush_signal"} =>
                    /\ pc'[t] = "idle"
                    /\ mutex[b] # t /\ mutex' = mutex
                    /\ SignalsOnce(not_empty, b)
                    /\ not_full' = not_full
              /\ pc[t] = "bpop_remove" =>
                    (pc'[t] = "bpop_unlock" /\ mutex[b] = t /\ mutex'[b] = t)
              /\ pc[t] = "bpop_unlock" =>
                    (pc'[t] = "bpop_signal" /\ mutex[b] = t /\ mutex'[b] = 0
                        /\ queue' = queue)
              /\ pc[t] = "bpop_signal" =>
                    /\ pc'[t] = "idle"
                    /\ mutex[b] # t /\ mutex' = mutex
                    /\ SignalsOnce(not_full, b)
                    /\ not_empty' = not_empty
              /\ (\E u \in not_empty[b] : u \notin not_empty'[b]) =>
                    pc[t] \in {"push_signal", "bpush_signal"}
              /\ (\E u \in not_full[b] : u \notin not_full'[b]) =>
                    pc[t] = "bpop_signal"]_vars
\* Two poppers waited on the empty queue and one push has completed: its
\* signal has taken one of them out of the wait set and left the other in.
C16_Witness ==
    \E t \in Threads, u \in Threads, w \in Threads :
        /\ ptr[t] = ptr[w] /\ ptr[u] = ptr[w] /\ ptr[w] # 0
        /\ pc[w] = "idle" /\ seq[w] = 1
        /\ BagCardinality(pushed) = 1 /\ popped = EmptyBag
        /\ pc[t] \in {"pop_wait", "bpop_wait"} /\ pc[u] = pc[t]
        /\ t \in not_empty[ptr[t]]
        /\ u \notin not_empty[ptr[u]]

\* The push calls and the pop calls made so far on the bounded queue.
PushCalls == TotalPushes
PopCalls ==
    BagCardinality(popped)
        + Cardinality({t \in Threads :
              pc[t] \in {"bpop_lock", "bpop_check", "bpop_wait", "bpop_remove"}})
Balanced == PushCalls = PopCalls
WaitsWithItems(t) ==
    ptr[t] # 0 /\ t \in not_empty[ptr[t]] /\ ~is_empty(queue[ptr[t]])
WaitsWithRoom(t) ==
    ptr[t] # 0 /\ t \in not_full[ptr[t]] /\ ~IsFull(queue[ptr[t]], maximum)

\* C17: on a bounded queue of capacity one or more, no call stays in
\* progress for ever while as many pushes as pops have been called; and no
\* thread stays for ever in the wait on not_empty while the queue is
\* non-empty, or in the wait on not_full while the queue is short of full.
C17_NoLostWakeup ==
    \A t \in Threads :
        /\ []<>(maximum >= 1 => (pc[t] = "idle" \/ ~Balanced))
        /\ []<>(maximum >= 1 => ~WaitsWithItems(t))
        /\ []<>(maximum >= 1 => ~WaitsWithRoom(t))
\* As many pushes as pops have been called, an item is in the queue and a
\* popper is still in the wait set of not_empty.
C17_Witness ==
    /\ maximum >= 1
    /\ Balanced
    /\ \E t \in Threads : WaitsWithItems(t)
    /\ \E u \in Threads : pc[u] = "bpush_signal"

ZeroCapacity == qtype \in BoundedTypes /\ maximum = 0

\* C18: a bounded queue of capacity 0 exists after construction and
\* nothing ever gets through it: it stays empty, no push gets past the
\* full-test to insert, no pop gets past the empty-test to remove, and a
\* thread that has called push or pop never returns.
C18_ZeroCapacityStuck ==
    /\ [](ZeroCapacity =>
            /\ \A b \in Boxes : is_empty(queue[b]) /\ IsFull(queue[b], maximum)
            /\ pushed = EmptyBag /\ popped = EmptyBag
            /\ \A t \in Threads :
                  pc[t] \in {"idle", "bpush_lock", "bpush_check", "bpush_wait",
                             "bpop_lock", "bpop_check", "bpop_wait"})
    /\ [][ZeroCapacity =>
            \A t \in Threads : pc[t] # "idle" => pc'[t] # "idle"]_vars
\* On a queue of capacity 0 a push waits on not_full and a pop waits on
\* not_empty, both in their wait sets.
C18_Witness ==
    /\ ZeroCapacity
    /\ \E t \in Threads, u \in Threads :
          /\ pc[t] = "bpush_wait" /\ t \in not_full[ptr[t]]
          /\ pc[u] = "bpop_wait" /\ u \in not_empty[ptr[u]]

\* All entries of all shards.
AllEntries == UNION {maps[i] : i \in DOMAIN maps}

\* C19: a ShardMap of one or more shards and a single-lock map given the
\* same calls, both empty at first, return the same result for every
\* call, and the shards together hold the entries the single map holds.
C19_ShardMapIsOneMap ==
    (mtype = "ShardMap" /\ NumShards >= 1) =>
        /\ AllEntries = single
        /\ \A t \in MapThreads : mpc[t] = "unlock" => mret[t] = sret[t]
\* A pop on a ShardMap of two shards, both in use, is returning the value
\* of its key while the other shard still holds an entry.
C19_Witness ==
    /\ mtype = "ShardMap"
    /\ NumShards = 2
    /\ \E t \in MapThreads :
          /\ mpc[t] = "unlock"
          /\ mop[t].op = "pop"
          /\ mret[t].some
          /\ \E i \in DOMAIN maps : i # mshard[t] /\ maps[i] # {}
          /\ single # {}

NoShards == mtype = "ShardMap" /\ NumShards = 0

\* C20: a ShardMap of no shards exists after construction, with no shard
\* and no mutex; a call on it ends in the computation of the shard index,
\* so no thread is ever at a lock, inside a shard or returning, nothing is
\* ever stored and no result is ever handed out.
C20_NoShardsFaults ==
    /\ [](NoShards =>
            /\ DOMAIN maps = {} /\ DOMAIN mmutex = {}
            /\ single = {}
            /\ \A t \in MapThreads :
                  /\ mpc[t] \in {"idle", "failed"}
                  /\ mret[t] = None_ /\ kept[t] = None_)
    /\ [][NoShards =>
            \A t \in MapThreads :
                mpc'[t] # mpc[t] => (mpc[t] = "idle" /\ mpc'[t] = "failed")]_vars
\* Both threads have called into a ShardMap of no shards and ended there.
C20_Witness ==
    /\ NoShards
    /\ \A t \in MapThreads : mpc[t] = "failed"

====
